---- MODULE Spec2Model ----
(***************************************************************************)
(* Model of the client-side stores of src/src/App.js: the session store    *)
(* (AuthProvider), the catalog store and favorites list (MovieProvider),   *)
(* and the parts of the view layer that decide which store operations can  *)
(* be invoked (Home, MovieList, MovieDetail, FavoritesPage, the navbar).   *)
(*                                                                         *)
(* Strings the code inspects character by character (the search input) are *)
(* sequences of one-character strings; the empty query '' is <<>>.         *)
(* Presentation-only state (theme, authMode, the text typed into inputs)   *)
(* is not part of the model: the text of an input is the parameter of the  *)
(* submit handler that reads it.                                           *)
(***************************************************************************)
EXTENDS Integers, Sequences, FiniteSets, TLC

VARIABLES
    user,            \* AuthProvider: useState(null)
    storage,         \* localStorage['user']
    showAuthModal,   \* AuthProvider: useState(false)
    loginTimers,     \* pending setTimeout callbacks of login, in firing order
    movies,          \* MovieProvider: search results
    trendingMovies,  \* MovieProvider: trending results
    searchQuery,     \* MovieProvider: active query
    isLoading,       \* MovieProvider: loading flag
    error,           \* MovieProvider: last error message or Null
    favorites,       \* MovieProvider: favorites list (movie ids, display order)
    searchHistory,   \* MovieProvider: queries that succeeded
    trendingReq,     \* position of loadData: "pending", "resolved", "rejected"
    searchReqs,      \* searchMovies calls awaiting axios.get, in call order
    orphanReqs,      \* fetchMovieDetails calls awaiting axios.get whose MovieDetail unmounted
    route,           \* current route: "home", "detail", "favorites"
    detailId,        \* useParams().id on the detail route, else 0
    loading,         \* MovieDetail: useState(true)
    movie,           \* MovieDetail: useState(null); 0 is null
    consoleErrors,   \* messages passed to console.error by MovieDetail.loadMovie
    lastOp           \* history: the handler or callback that ran last

vars == <<user, storage, showAuthModal, loginTimers, movies, trendingMovies,
          searchQuery, isLoading, error, favorites, searchHistory, trendingReq,
          searchReqs, orphanReqs, route, detailId, loading, movie,
          consoleErrors, lastOp>>

sessionVars == <<user, storage, showAuthModal, loginTimers>>
catalogVars == <<movies, trendingMovies, searchQuery, isLoading, error,
                 searchHistory, trendingReq, searchReqs>>
detailVars  == <<route, detailId, loading, movie, orphanReqs>>

----------------------------------------------------------------------------
(* Bounds of the model *)

MaxSearchReqs == 2      \* searchMovies calls in flight at once
MaxOrphanReqs == 1      \* detail fetches in flight whose page was left
MaxLoginTimers == 2     \* login timers pending at once
MaxFavId == 4           \* movie ids of the favorites-only specification

----------------------------------------------------------------------------
(* Values *)

Null == "<null>"

Users == {"alice", "bob"}

MovieIds == {1, 2}

Routes == {"home", "detail", "favorites"}

\* Texts the user can submit in the search form.
Inputs == {<<>>, <<" ">>, <<" ", " ">>, <<"a">>, <<"b">>}

TrendingFailMsg == "Failed to fetch trending movies"

DetailFailMsg == "Failed to fetch movie details"

\* err.message of a rejected axios.get
AxiosMessages == {"Network Error", "Request failed with status code 500"}

Range(s) == {s[i] : i \in 1..Len(s)}

Op(name, arg) == [op |-> name, arg |-> arg]

----------------------------------------------------------------------------
(* The metadata provider: what a successful response holds *)

TrendingResponse == <<1, 2>>

SearchResponse(q) ==
    IF q = <<"a">> THEN <<1>>
    ELSE IF q = <<"b">> THEN <<2>>
    ELSE <<>>

----------------------------------------------------------------------------
(* Pure helpers *)

Whitespace == {" "}

RECURSIVE TrimStart(_)
TrimStart(s) ==
    IF s = <<>> THEN <<>>
    ELSE IF Head(s) \in Whitespace THEN TrimStart(Tail(s))
    ELSE s

RECURSIVE TrimEnd(_)
TrimEnd(s) ==
    IF s = <<>> THEN <<>>
    ELSE IF s[Len(s)] \in Whitespace THEN TrimEnd(SubSeq(s, 1, Len(s) - 1))
    ELSE s

\* String.prototype.trim
Trim(s) == TrimEnd(TrimStart(s))

\* [...new Set(xs)]: first occurrences, in order
RECURSIVE Dedupe(_)
Dedupe(xs) ==
    IF xs = <<>> THEN <<>>
    ELSE LET init == Dedupe(SubSeq(xs, 1, Len(xs) - 1))
             last == xs[Len(xs)]
         IN IF last \in Range(init) THEN init ELSE Append(init, last)

\* prev.filter(fav => fav.id !== id)
RECURSIVE Without(_, _)
Without(favs, id) ==
    IF favs = <<>> THEN <<>>
    ELSE IF Head(favs) = id THEN Without(Tail(favs), id)
    ELSE <<Head(favs)>> \o Without(Tail(favs), id)

RemoveAt(s, i) == SubSeq(s, 1, i - 1) \o SubSeq(s, i + 1, Len(s))

----------------------------------------------------------------------------
(* Construction: the state once the mount effects of AuthProvider,         *)
(* MovieProvider and (on the detail route) MovieDetail have run.  A page   *)
(* can be opened on any route, with or without a stored identity.          *)

Mounted(st, r, id) ==
    [user |-> st, storage |-> st, showAuthModal |-> FALSE, loginTimers |-> <<>>,
     movies |-> <<>>, trendingMovies |-> <<>>, searchQuery |-> <<>>,
     isLoading |-> TRUE, error |-> Null, favorites |-> <<>>,
     searchHistory |-> <<>>, trendingReq |-> "pending", searchReqs |-> <<>>,
     orphanReqs |-> 0, route |-> r,
     detailId |-> IF r = "detail" THEN id ELSE 0,
     loading |-> (r = "detail"), movie |-> 0, consoleErrors |-> {},
     lastOp |-> Op("mount", <<>>)]

Init ==
    \E st \in Users \cup {Null}, r \in Routes, id \in MovieIds :
        LET s == Mounted(st, r, id) IN
        /\ user = s.user /\ storage = s.storage
        /\ showAuthModal = s.showAuthModal /\ loginTimers = s.loginTimers
        /\ movies = s.movies /\ trendingMovies = s.trendingMovies
        /\ searchQuery = s.searchQuery /\ isLoading = s.isLoading
        /\ error = s.error /\ favorites = s.favorites
        /\ searchHistory = s.searchHistory /\ trendingReq = s.trendingReq
        /\ searchReqs = s.searchReqs /\ orphanReqs = s.orphanReqs
        /\ route = s.route /\ detailId = s.detailId
        /\ loading = s.loading /\ movie = s.movie
        /\ consoleErrors = s.consoleErrors /\ lastOp = s.lastOp

\* A full page load (reload, or a URL typed into the address bar): every
\* store is constructed again; only localStorage survives.
Reload(r, id) ==
    LET s == Mounted(storage, r, id) IN
    /\ user' = s.user /\ storage' = s.storage
    /\ showAuthModal' = s.showAuthModal /\ loginTimers' = s.loginTimers
    /\ movies' = s.movies /\ trendingMovies' = s.trendingMovies
    /\ searchQuery' = s.searchQuery /\ isLoading' = s.isLoading
    /\ error' = s.error /\ favorites' = s.favorites
    /\ searchHistory' = s.searchHistory /\ trendingReq' = s.trendingReq
    /\ searchReqs' = s.searchReqs /\ orphanReqs' = s.orphanReqs
    /\ route' = s.route /\ detailId' = s.detailId
    /\ loading' = s.loading /\ movie' = s.movie
    /\ consoleErrors' = s.consoleErrors /\ lastOp' = s.lastOp

----------------------------------------------------------------------------
(* Session store *)

\* The Login / Sign Up buttons of the navbar and of WelcomePage exist only
\* while no user is set.
OpenAuthModal ==
    /\ user = Null
    /\ showAuthModal' = TRUE
    /\ lastOp' = Op("openAuthModal", <<>>)
    /\ UNCHANGED <<user, storage, loginTimers, catalogVars, favorites,
                   detailVars, consoleErrors>>

CloseAuthModal ==
    /\ showAuthModal
    /\ showAuthModal' = FALSE
    /\ lastOp' = Op("closeAuthModal", <<>>)
    /\ UNCHANGED <<user, storage, loginTimers, catalogVars, favorites,
                   detailVars, consoleErrors>>

\* AuthModal.handleSubmit -> login(username, password): starts the timer.
Login(u) ==
    /\ showAuthModal
    /\ Len(loginTimers) < MaxLoginTimers
    /\ loginTimers' = Append(loginTimers, u)
    /\ lastOp' = Op("login", <<u>>)
    /\ UNCHANGED <<user, storage, showAuthModal, catalogVars, favorites,
                   detailVars, consoleErrors>>

\* Variant of LoginTimeout: the identity is not written to localStorage.
LoginTimeoutNoPersist ==
    /\ loginTimers # <<>>
    /\ user' = Head(loginTimers)
    /\ showAuthModal' = FALSE
    /\ loginTimers' = Tail(loginTimers)
    /\ lastOp' = Op("loginTimeout", <<Head(loginTimers)>>)
    /\ UNCHANGED <<storage, catalogVars, favorites, detailVars, consoleErrors>>

\* The setTimeout callback of login; equal delays fire in call order.
LoginTimeout ==
    /\ loginTimers # <<>>
    /\ user' = Head(loginTimers)
    /\ storage' = Head(loginTimers)
    /\ showAuthModal' = FALSE
    /\ loginTimers' = Tail(loginTimers)
    /\ lastOp' = Op("loginTimeout", <<Head(loginTimers)>>)
    /\ UNCHANGED <<catalogVars, favorites, detailVars, consoleErrors>>

\* Variant of Logout: localStorage keeps the identity.
LogoutKeepStorage ==
    /\ user # Null
    /\ user' = Null
    /\ lastOp' = Op("logout", <<>>)
    /\ UNCHANGED <<storage, showAuthModal, loginTimers, catalogVars, favorites,
                   detailVars, consoleErrors>>

\* The Logout button of the navbar exists only while a user is set.
Logout ==
    /\ user # Null
    /\ user' = Null
    /\ storage' = Null
    /\ lastOp' = Op("logout", <<>>)
    /\ UNCHANGED <<showAuthModal, loginTimers, catalogVars, favorites,
                   detailVars, consoleErrors>>

----------------------------------------------------------------------------
(* Catalog store *)

\* loadData: the awaited fetchTrendingMovies resolved.
LoadDataResolve ==
    /\ trendingReq = "pending"
    /\ trendingReq' = "resolved"
    /\ trendingMovies' = TrendingResponse
    /\ isLoading' = FALSE
    /\ lastOp' = Op("trendingResolved", <<>>)
    /\ UNCHANGED <<sessionVars, movies, searchQuery, error, searchHistory,
                   searchReqs, favorites, detailVars, consoleErrors>>

\* Variant of LoadDataReject: fetchTrendingMovies lets the axios error through
\* instead of throwing its own Error.
LoadDataRejectRaw ==
    /\ trendingReq = "pending"
    /\ trendingReq' = "rejected"
    /\ \E msg \in AxiosMessages : error' = msg
    /\ isLoading' = FALSE
    /\ lastOp' = Op("trendingRejected", <<>>)
    /\ UNCHANGED <<sessionVars, movies, trendingMovies, searchQuery,
                   searchHistory, searchReqs, favorites, detailVars,
                   consoleErrors>>

\* loadData: fetchTrendingMovies threw its fixed Error.
LoadDataReject ==
    /\ trendingReq = "pending"
    /\ trendingReq' = "rejected"
    /\ error' = TrendingFailMsg
    /\ isLoading' = FALSE
    /\ lastOp' = Op("trendingRejected", <<>>)
    /\ UNCHANGED <<sessionVars, movies, trendingMovies, searchQuery,
                   searchHistory, searchReqs, favorites, detailVars,
                   consoleErrors>>

\* searchMovies(query) up to its await.
SearchMovies(query) ==
    /\ isLoading' = TRUE
    /\ searchQuery' = query
    /\ searchReqs' = Append(searchReqs, query)

\* The search form exists only on Home while a user is set.
CanSearch == route = "home" /\ user # Null

\* Variant of HandleSearch: the guard tests searchInput, not searchInput.trim().
HandleSearchNoTrim(input) ==
    /\ CanSearch
    /\ IF input # <<>>
       THEN /\ Len(searchReqs) < MaxSearchReqs
            /\ SearchMovies(input)
       ELSE UNCHANGED <<isLoading, searchQuery, searchReqs>>
    /\ lastOp' = Op("handleSearch", input)
    /\ UNCHANGED <<sessionVars, movies, trendingMovies, error, searchHistory,
                   trendingReq, favorites, detailVars, consoleErrors>>

\* Home.handleSearch with searchInput = input.
HandleSearch(input) ==
    /\ CanSearch
    /\ IF Trim(input) # <<>>
       THEN /\ Len(searchReqs) < MaxSearchReqs
            /\ SearchMovies(input)
       ELSE UNCHANGED <<isLoading, searchQuery, searchReqs>>
    /\ lastOp' = Op("handleSearch", input)
    /\ UNCHANGED <<sessionVars, movies, trendingMovies, error, searchHistory,
                   trendingReq, favorites, detailVars, consoleErrors>>

\* searchMovies: the awaited axios.get of call i resolved.
SearchResolve(i) ==
    /\ i \in 1..Len(searchReqs)
    /\ movies' = SearchResponse(searchReqs[i])
    /\ searchHistory' = Dedupe(Append(searchHistory, searchReqs[i]))
    /\ isLoading' = FALSE
    /\ searchReqs' = RemoveAt(searchReqs, i)
    /\ lastOp' = Op("searchResolved", searchReqs[i])
    /\ UNCHANGED <<sessionVars, trendingMovies, searchQuery, error,
                   trendingReq, favorites, detailVars, consoleErrors>>

\* Variant of SearchReject: the catch block drops the error.
SearchRejectSwallowed(i, msg) ==
    /\ i \in 1..Len(searchReqs)
    /\ isLoading' = FALSE
    /\ searchReqs' = RemoveAt(searchReqs, i)
    /\ lastOp' = Op("searchRejected", searchReqs[i])
    /\ UNCHANGED <<sessionVars, movies, trendingMovies, searchQuery, error,
                   searchHistory, trendingReq, favorites, detailVars,
                   consoleErrors>>

\* Variant of SearchReject: no finally block, isLoading is left as it is.
SearchRejectNoFinally(i, msg) ==
    /\ i \in 1..Len(searchReqs)
    /\ error' = msg
    /\ searchReqs' = RemoveAt(searchReqs, i)
    /\ lastOp' = Op("searchRejected", searchReqs[i])
    /\ UNCHANGED <<sessionVars, movies, trendingMovies, searchQuery, isLoading,
                   searchHistory, trendingReq, favorites, detailVars,
                   consoleErrors>>

\* searchMovies: the awaited axios.get of call i rejected with message msg.
SearchReject(i, msg) ==
    /\ i \in 1..Len(searchReqs)
    /\ error' = msg
    /\ isLoading' = FALSE
    /\ searchReqs' = RemoveAt(searchReqs, i)
    /\ lastOp' = Op("searchRejected", searchReqs[i])
    /\ UNCHANGED <<sessionVars, movies, trendingMovies, searchQuery,
                   searchHistory, trendingReq, favorites, detailVars,
                   consoleErrors>>

\* Variant of ClearSearch: the history is reset with the results.
ClearSearchAll ==
    /\ CanSearch
    /\ searchQuery # <<>>
    /\ searchQuery' = <<>>
    /\ movies' = <<>>
    /\ searchHistory' = <<>>
    /\ lastOp' = Op("clearSearch", searchQuery)
    /\ UNCHANGED <<sessionVars, trendingMovies, isLoading, error,
                   trendingReq, searchReqs, favorites, detailVars,
                   consoleErrors>>

\* The Clear / Back to Trending buttons of Home exist while searchQuery is
\* truthy (and a user is set).
ClearSearch ==
    /\ CanSearch
    /\ searchQuery # <<>>
    /\ searchQuery' = <<>>
    /\ movies' = <<>>
    /\ lastOp' = Op("clearSearch", searchQuery)
    /\ UNCHANGED <<sessionVars, trendingMovies, isLoading, error,
                   searchHistory, trendingReq, searchReqs, favorites,
                   detailVars, consoleErrors>>

----------------------------------------------------------------------------
(* Favorites *)

\* Variant of Toggle: the membership test never matches.
ToggleAlwaysAdd(favs, id) == Append(favs, id)

\* The updater passed to setFavorites by toggleFavorite(movie), movie.id = id.
Toggle(favs, id) ==
    IF \E i \in 1..Len(favs) : favs[i] = id
    THEN Without(favs, id)
    ELSE Append(favs, id)

\* toggleFavorite(movie)
ToggleFavorite(id) ==
    /\ favorites' = Toggle(favorites, id)
    /\ lastOp' = Op("toggleFavorite", <<>>)
    /\ UNCHANGED <<sessionVars, catalogVars, detailVars, consoleErrors>>

----------------------------------------------------------------------------
(* View layer: what is rendered, hence which handlers can run *)

\* The list Home passes to MovieList; WelcomePage replaces it without a user.
HomeList == IF searchQuery # <<>> THEN movies ELSE trendingMovies

\* MovieList instances on screen: Home's (user set) and FavoritesPage's
\* (favorites non-empty).  Each entry has a Link and a favorite button.
ListedMovies ==
    IF route = "home" /\ user # Null THEN Range(HomeList)
    ELSE IF route = "favorites" THEN Range(favorites)
    ELSE {}

\* A favorite button for movie id is on screen: in a MovieList, or in
\* MovieDetail once loading is false and movie is set.
CanToggle(id) ==
    \/ id \in ListedMovies
    \/ route = "detail" /\ ~loading /\ movie = id

ClickFavorite(id) ==
    /\ CanToggle(id)
    /\ ToggleFavorite(id)

\* Leaving the detail route while its fetch is awaited leaves the request in
\* flight; the component's own setters no longer do anything.
LeaveDetail ==
    IF route = "detail" /\ loading
    THEN /\ orphanReqs < MaxOrphanReqs
         /\ orphanReqs' = orphanReqs + 1
    ELSE orphanReqs' = orphanReqs

\* MovieDetail mounts for id: loading starts true, movie null, and its effect
\* calls fetchMovieDetails(id), which sets isLoading.
OpenDetail(id) ==
    /\ route # "detail"
    /\ route' = "detail"
    /\ detailId' = id
    /\ loading' = TRUE
    /\ movie' = 0
    /\ isLoading' = TRUE
    /\ UNCHANGED <<sessionVars, movies, trendingMovies, searchQuery, error,
                   searchHistory, trendingReq, searchReqs, favorites,
                   orphanReqs, consoleErrors>>

\* The Link around a movie card.
ClickMovie(id) ==
    /\ id \in ListedMovies
    /\ OpenDetail(id)
    /\ lastOp' = Op("clickMovie", <<>>)

\* Client-side navigation to a list route: the My Favorites link (user set),
\* navigate(-1) of a Back button, or the browser's history buttons.
GoTo(r) ==
    /\ r \in {"home", "favorites"}
    /\ r # route
    /\ LeaveDetail
    /\ route' = r
    /\ detailId' = 0
    /\ loading' = FALSE
    /\ movie' = 0
    /\ lastOp' = Op("goTo", <<>>)
    /\ UNCHANGED <<sessionVars, catalogVars, favorites, consoleErrors>>

\* The browser's history buttons leading back to a detail page seen before.
HistoryDetail(id) ==
    /\ OpenDetail(id)
    /\ lastOp' = Op("historyDetail", <<>>)

\* fetchMovieDetails resolved while its MovieDetail is mounted.
DetailResolve ==
    /\ route = "detail" /\ loading
    /\ isLoading' = FALSE
    /\ movie' = detailId
    /\ loading' = FALSE
    /\ lastOp' = Op("detailResolved", <<>>)
    /\ UNCHANGED <<sessionVars, movies, trendingMovies, searchQuery, error,
                   searchHistory, trendingReq, searchReqs, favorites, route,
                   detailId, orphanReqs, consoleErrors>>

\* fetchMovieDetails rejected while its MovieDetail is mounted: the store
\* rethrows, loadMovie catches and logs.
DetailReject ==
    /\ route = "detail" /\ loading
    /\ isLoading' = FALSE
    /\ consoleErrors' = consoleErrors \cup {DetailFailMsg}
    /\ loading' = FALSE
    /\ lastOp' = Op("detailRejected", <<>>)
    /\ UNCHANGED <<sessionVars, movies, trendingMovies, searchQuery, error,
                   searchHistory, trendingReq, searchReqs, favorites, route,
                   detailId, movie, orphanReqs>>

\* The same two completions after the MovieDetail unmounted.
OrphanResolve ==
    /\ orphanReqs > 0
    /\ orphanReqs' = orphanReqs - 1
    /\ isLoading' = FALSE
    /\ lastOp' = Op("detailResolved", <<>>)
    /\ UNCHANGED <<sessionVars, movies, trendingMovies, searchQuery, error,
                   searchHistory, trendingReq, searchReqs, favorites, route,
                   detailId, loading, movie, consoleErrors>>

OrphanReject ==
    /\ orphanReqs > 0
    /\ orphanReqs' = orphanReqs - 1
    /\ isLoading' = FALSE
    /\ consoleErrors' = consoleErrors \cup {DetailFailMsg}
    /\ lastOp' = Op("detailRejected", <<>>)
    /\ UNCHANGED <<sessionVars, movies, trendingMovies, searchQuery, error,
                   searchHistory, trendingReq, searchReqs, favorites, route,
                   detailId, loading, movie>>

----------------------------------------------------------------------------
(* The application *)

Next ==
    \/ \E r \in Routes, id \in MovieIds : Reload(r, id)
    \/ OpenAuthModal
    \/ CloseAuthModal
    \/ \E u \in Users : Login(u)
    \/ LoginTimeout
    \/ Logout
    \/ LoadDataResolve
    \/ LoadDataReject
    \/ \E input \in Inputs : HandleSearch(input)
    \/ \E i \in 1..MaxSearchReqs : SearchResolve(i)
    \/ \E i \in 1..MaxSearchReqs, msg \in AxiosMessages : SearchReject(i, msg)
    \/ ClearSearch
    \/ \E id \in MovieIds : ClickFavorite(id)
    \/ \E id \in MovieIds : ClickMovie(id)
    \/ \E r \in Routes : GoTo(r)
    \/ \E id \in MovieIds : HistoryDetail(id)
    \/ DetailResolve
    \/ DetailReject
    \/ OrphanResolve
    \/ OrphanReject

Spec == Init /\ [][Next]_vars

----------------------------------------------------------------------------
(* Restrictions of the application to the handlers of one store.  Every    *)
(* behaviour of a restriction is a behaviour of Spec in which the user     *)
(* does not invoke the other handlers.  The stores share no state beyond   *)
(* what the view guards read, so the product explored by Spec is several   *)
(* million states; the properties below are checked under the restriction  *)
(* that holds every handler they speak of.                                 *)

\* The catalog store alone: trending load, searches, clearSearch, reloads.
CatalogNext ==
    \/ \E r \in Routes, id \in MovieIds : Reload(r, id)
    \/ LoadDataResolve
    \/ LoadDataReject
    \/ \E input \in Inputs : HandleSearch(input)
    \/ \E i \in 1..MaxSearchReqs : SearchResolve(i)
    \/ \E i \in 1..MaxSearchReqs, msg \in AxiosMessages : SearchReject(i, msg)
    \/ ClearSearch

CatalogSpec == Init /\ [][CatalogNext]_vars

\* The three provider fetches together: trending load, searches for one
\* query, and the navigation that starts and orphans detail fetches.
FetchNext ==
    \/ \E r \in Routes, id \in MovieIds : Reload(r, id)
    \/ LoadDataResolve
    \/ LoadDataReject
    \/ \E input \in {<<" ">>, <<"a">>} : HandleSearch(input)
    \/ \E i \in 1..MaxSearchReqs : SearchResolve(i)
    \/ \E i \in 1..MaxSearchReqs, msg \in AxiosMessages : SearchReject(i, msg)
    \/ \E id \in MovieIds : ClickMovie(id)
    \/ \E r \in Routes : GoTo(r)
    \/ \E id \in MovieIds : HistoryDetail(id)
    \/ DetailResolve
    \/ DetailReject
    \/ OrphanResolve
    \/ OrphanReject

FetchSpec == Init /\ [][FetchNext]_vars

\* The session store, the favorites and the navigation: no search is made.
SessionNext ==
    \/ \E r \in Routes, id \in MovieIds : Reload(r, id)
    \/ OpenAuthModal
    \/ CloseAuthModal
    \/ \E u \in Users : Login(u)
    \/ LoginTimeout
    \/ Logout
    \/ LoadDataResolve
    \/ LoadDataReject
    \/ \E id \in MovieIds : ClickFavorite(id)
    \/ \E id \in MovieIds : ClickMovie(id)
    \/ \E r \in Routes : GoTo(r)
    \/ \E id \in MovieIds : HistoryDetail(id)
    \/ DetailResolve
    \/ DetailReject
    \/ OrphanResolve
    \/ OrphanReject

SessionSpec == Init /\ [][SessionNext]_vars

\* toggleFavorite as a function of the list: the favorites start as any list
\* of distinct ids and the store operation is applied to any movie.
FavIds == 1..MaxFavId

UniqueLists(S) ==
    {f \in UNION {[1..n -> S] : n \in 0..Cardinality(S)} :
        \A i, j \in 1..Len(f) : i # j => f[i] # f[j]}

FavoritesInit ==
    LET s == Mounted("alice", "favorites", 0) IN
    /\ favorites \in UniqueLists(FavIds)
    /\ user = s.user /\ storage = s.storage
    /\ showAuthModal = s.showAuthModal /\ loginTimers = s.loginTimers
    /\ movies = s.movies /\ trendingMovies = s.trendingMovies
    /\ searchQuery = s.searchQuery /\ isLoading = s.isLoading
    /\ error = s.error
    /\ searchHistory = s.searchHistory /\ trendingReq = s.trendingReq
    /\ searchReqs = s.searchReqs /\ orphanReqs = s.orphanReqs
    /\ route = s.route /\ detailId = s.detailId
    /\ loading = s.loading /\ movie = s.movie
    /\ consoleErrors = s.consoleErrors /\ lastOp = s.lastOp

FavoritesNext == \E id \in FavIds : ToggleFavorite(id)

FavoritesSpec == FavoritesInit /\ [][FavoritesNext]_vars

----------------------------------------------------------------------------
(* Properties *)

Queries == {q \in Inputs : Trim(q) # <<>>}

IsBlank(s) == \A i \in 1..Len(s) : s[i] \in Whitespace

\* Some loadTrending, search or fetchDetail request awaits its response.
AnyInFlight ==
    \/ trendingReq = "pending"
    \/ searchReqs # <<>>
    \/ orphanReqs > 0
    \/ route = "detail" /\ loading

\* C1: when the responses of two overlapping searches have both landed, b's
\* first and a's last, and no search is in flight, searchQuery is a, the
\* query whose results are in movies.
C1_QueryOfLastLanded ==
    \A a \in Queries, b \in Queries :
        (/\ a # b
         /\ lastOp = Op("searchResolved", a)
         /\ searchHistory = <<b, a>>
         /\ searchReqs = <<>>)
        => (searchQuery = a /\ movies = SearchResponse(searchQuery))

\* C2: in every reachable state an empty searchQuery implies empty
\* searchResults.
C2_EmptyQueryEmptyResults == searchQuery = <<>> => movies = <<>>

\* C3 (as claimed): every failing fetch, whichever operation issued it, sets
\* lastError to a non-empty string and no exception reaches the view layer.
C3_AllFailuresToLastError ==
    [][lastOp'.op \in {"trendingRejected", "searchRejected", "detailRejected"}
         => /\ error' \notin {Null, ""}
            /\ consoleErrors' = consoleErrors]_vars

\* C3 (amended): a failing loadTrending or search sets lastError to a
\* non-empty string and no exception reaches the view layer; a failing
\* fetchDetail leaves lastError unchanged and its Error reaches the caller
\* MovieDetail.loadMovie, which logs it.
C3_FailuresBySource ==
    [][/\ lastOp'.op \in {"trendingRejected", "searchRejected"}
          => /\ error' \notin {Null, ""}
             /\ consoleErrors' = consoleErrors
       /\ lastOp'.op = "detailRejected"
          => /\ error' = error
             /\ DetailFailMsg \in consoleErrors']_vars

\* A failed detail fetch was logged by the view while lastError still holds
\* the message of an earlier failed search.
C3_Witness ==
    /\ lastOp.op = "detailRejected"
    /\ DetailFailMsg \in consoleErrors
    /\ error \in AxiosMessages

\* C4: isLoading is true whenever a loadTrending, search or fetchDetail
\* request is awaiting its response.
C4_LoadingWhileInFlight == AnyInFlight => isLoading

\* C5: after a failed search, with no search in flight and none having
\* succeeded since load, searchQuery and searchResults still have their
\* initial values, lastError is set and the history is empty.
C5_FailedSearchKeepsQuery ==
    (/\ lastOp.op = "searchRejected"
     /\ searchHistory = <<>>
     /\ searchReqs = <<>>)
    => (searchQuery = <<>> /\ movies = <<>> /\ error # Null)

\* C6: submitting an empty or whitespace-only search input leaves
\* searchQuery, searchResults and isLoading unchanged and issues no request.
C6_BlankSearchRejected ==
    [][(lastOp'.op = "handleSearch" /\ IsBlank(lastOp'.arg))
         => UNCHANGED <<searchQuery, movies, isLoading, searchReqs>>]_vars

\* A whitespace-only input was submitted after a completed search for "a".
C6_Witness ==
    /\ lastOp = Op("handleSearch", <<" ", " ">>)
    /\ searchQuery = <<"a">>
    /\ movies = SearchResponse(<<"a">>)
    /\ ~isLoading
    /\ searchReqs = <<>>

\* C7: whenever a search or a favorite toggle can be triggered, a session
\* identity is present.
C7_OperationsNeedIdentity ==
    (CanSearch \/ \E id \in MovieIds : CanToggle(id)) => user # Null

\* C8: the step in which loadTrending fails leaves trending at its pre-call
\* value, the empty list, and sets lastError to the fixed message.
C8_FailedTrending ==
    [][lastOp'.op = "trendingRejected"
         => /\ trendingMovies' = trendingMovies
            /\ trendingMovies' = <<>>
            /\ error' = TrendingFailMsg]_vars

\* loadTrending has failed.
C8_Witness ==
    /\ lastOp.op = "trendingRejected"
    /\ trendingReq = "rejected"
    /\ trendingMovies = <<>>
    /\ error = TrendingFailMsg

\* C9: toggling any movie twice in a row gives a list with the same ids, no
\* id twice, and the members other than that movie in their original order.
C9_ToggleTwice ==
    \A id \in FavIds :
        LET twice == Toggle(Toggle(favorites, id), id) IN
        /\ Range(twice) = Range(favorites)
        /\ Len(twice) = Len(favorites)
        /\ Without(twice, id) = Without(favorites, id)

\* A list of three or more favorites, reached by a toggle, whose first
\* member toggled twice moves to the end.
C9_Witness ==
    /\ lastOp.op = "toggleFavorite"
    /\ Len(favorites) >= 3
    /\ Toggle(Toggle(favorites, favorites[1]), favorites[1]) # favorites

\* C10 (as claimed): right after clearSearch, when the search for the cleared
\* query has completed, searchQuery and searchResults are empty and
\* searchHistory contains the cleared query.
C10_SearchThenClear ==
    (lastOp.op = "clearSearch" /\ lastOp.arg \notin Range(searchReqs))
    => /\ searchQuery = <<>>
       /\ movies = <<>>
       /\ lastOp.arg \in Range(searchHistory)

\* C10 (amended): a search whose request succeeds puts its query in
\* searchHistory; no later step short of a page load removes a query from
\* it; clearSearch empties searchQuery and searchResults and leaves
\* searchHistory as it is.
C10_SuccessfulSearchThenClear ==
    [][/\ lastOp'.op = "searchResolved"
          => lastOp'.arg \in Range(searchHistory')
       /\ lastOp'.op # "mount"
          => Range(searchHistory) \subseteq Range(searchHistory')
       /\ lastOp'.op = "clearSearch"
          => /\ searchQuery' = <<>>
             /\ movies' = <<>>
             /\ searchHistory' = searchHistory]_vars

\* clearSearch ran after the search for "a" succeeded.
C10_Witness ==
    /\ lastOp = Op("clearSearch", <<"a">>)
    /\ <<"a">> \in Range(searchHistory)
    /\ searchReqs = <<>>
    /\ searchQuery = <<>>
    /\ movies = <<>>

----------------------------------------------------------------------------
(* Favorites and identities *)

\* A favorite button clicked while u is the identity.
FavoriteAs(u, id) ==
    /\ user = u
    /\ ClickFavorite(id)

\* The session handlers and the navigation, with favorites toggled only
\* while alice is the identity: whatever the list holds, alice put there.
AliceFavoritesNext ==
    \/ \E r \in Routes, id \in MovieIds : Reload(r, id)
    \/ OpenAuthModal
    \/ CloseAuthModal
    \/ \E u \in Users : Login(u)
    \/ LoginTimeout
    \/ Logout
    \/ LoadDataResolve
    \/ LoadDataReject
    \/ \E id \in MovieIds : FavoriteAs("alice", id)
    \/ \E id \in MovieIds : ClickMovie(id)
    \/ \E r \in Routes : GoTo(r)
    \/ \E id \in MovieIds : HistoryDetail(id)
    \/ DetailResolve
    \/ DetailReject
    \/ OrphanResolve
    \/ OrphanReject

AliceFavoritesSpec == Init /\ [][AliceFavoritesNext]_vars

\* C11: favorites added while alice was the identity are not in the list
\* seen once bob is the identity; only alice adds favorites here, so bob
\* sees none.
C11_FavoritesUserScoped == user = "bob" => favorites = <<>>

----------------------------------------------------------------------------
(* Sessions from a first visit *)

\* A first visit: nothing is stored, so every identity seen later comes from
\* a login made in this behaviour.
FirstVisitInit == Init /\ storage = Null

\* logout() called again right after logout() (the store exposes logout
\* through the context whatever user is).
RepeatLogout ==
    /\ lastOp.op \in {"logout", "logoutAgain"}
    /\ user' = Null
    /\ storage' = Null
    /\ lastOp' = Op("logoutAgain", <<>>)
    /\ UNCHANGED <<showAuthModal, loginTimers, catalogVars, favorites,
                   detailVars, consoleErrors>>

FirstVisitNext ==
    \/ SessionNext
    \/ RepeatLogout

FirstVisitSpec == FirstVisitInit /\ [][FirstVisitNext]_vars

\* C12: a completed login(u) makes u the identity in memory and in storage;
\* no step other than a later completed login or a logout changes the stored
\* identity; a page load restores exactly the stored identity.
C12_LoginSurvivesReload ==
    [][/\ lastOp'.op = "loginTimeout"
          => /\ lastOp'.arg \in {<<u>> : u \in Users}
             /\ user' = lastOp'.arg[1]
             /\ storage' = lastOp'.arg[1]
       /\ lastOp'.op \notin {"loginTimeout", "logout", "logoutAgain"}
          => storage' = storage
       /\ lastOp'.op = "mount"
          => user' = storage]_vars

\* After a first visit, a page load restored alice.
C12_Witness ==
    /\ lastOp.op = "mount"
    /\ user = "alice"
    /\ storage = "alice"

\* C13: logout clears the identity in memory and in storage; a page load
\* right after a logout restores no identity; a second logout right after
\* changes nothing in memory or storage.
C13_LogoutClearsAndIsIdempotent ==
    [][/\ lastOp'.op = "logout"
          => /\ user' = Null
             /\ storage' = Null
       /\ (lastOp.op \in {"logout", "logoutAgain"} /\ lastOp'.op = "mount")
          => /\ user' = Null
             /\ storage' = Null
       /\ lastOp'.op = "logoutAgain"
          => UNCHANGED <<sessionVars, catalogVars, favorites, detailVars,
                         consoleErrors>>]_vars

\* After a first visit and a login, logout was called twice in a row.
C13_Witness ==
    /\ lastOp.op = "logoutAgain"
    /\ user = Null
    /\ storage = Null

\* C14: the step that follows a logout never sets the identity again, in
\* memory or in storage: a login invoked after the logout cannot have
\* completed yet, and one invoked before it must not take effect.
C14_NoLoginAfterLogout ==
    [][lastOp.op = "logout" => (user' = Null /\ storage' = Null)]_vars

----------------------------------------------------------------------------
(* Provider requests that complete *)

\* Some awaited request resolves or rejects.
FetchCompletion ==
    \/ LoadDataResolve
    \/ LoadDataReject
    \/ \E i \in 1..MaxSearchReqs : SearchResolve(i)
    \/ \E i \in 1..MaxSearchReqs, msg \in AxiosMessages : SearchReject(i, msg)
    \/ DetailResolve
    \/ DetailReject
    \/ OrphanResolve
    \/ OrphanReject

\* While a request is awaited, one of the awaited requests completes in the
\* end.  This asks less than every request completing, so what holds here
\* holds when every request completes.
FetchLiveSpec == FetchSpec /\ WF_vars(FetchCompletion)

\* C15: isLoading is false in every state where no request is in flight,
\* and whenever isLoading is true it becomes false later.
C15_LoadingEnds ==
    /\ [](~AnyInFlight => ~isLoading)
    /\ (isLoading ~> ~isLoading)

\* Trending load, a search and a detail fetch have all completed, the search
\* and the detail fetch by failing, and isLoading is false.
C15_Witness ==
    /\ ~AnyInFlight
    /\ ~isLoading
    /\ trendingReq = "resolved"
    /\ lastOp.op = "searchRejected"
    /\ DetailFailMsg \in consoleErrors

====
